---- MODULE Spec2Model ----
(***************************************************************************)
(* create-era-app: the project generator CreateElectronReactApp.           *)
(* Two generator variants are modelled side by side:                       *)
(*   "index"  - src/src/index.ts                                           *)
(*   "setup"  - the generator embedded in src/scripts/setup-template.sh    *)
(*              (lines 44-373), which adds the welcome-kit toggle, the     *)
(*              whole-word patterns and the try/catch in the rewriter.     *)
(* Text is a sequence of one-character strings, so that the regular        *)
(* expressions of the name validator and of the name rewriter are          *)
(* computed character by character.                                        *)
(***************************************************************************)
EXTENDS Integers, Sequences, FiniteSets, TLC

VARIABLES variant, argName, options, preExists, template,
          pc, projectName, config, tree, manifest, preRewrite,
          fsOps, namePrompts, nameRejects, optionPrompts,
          gitResult, installResult, rewriteResult, kitResult,
          installCmd, spinner, successMsg,
          installHint, exitCode

vars == <<variant, argName, options, preExists, template,
          pc, projectName, config, tree, manifest, preRewrite,
          fsOps, namePrompts, nameRejects, optionPrompts,
          gitResult, installResult, rewriteResult, kitResult,
          installCmd, spinner, successMsg,
          installHint, exitCode>>

\* How many times the name prompt may reject an answer before the model
\* stops offering rejected answers.
MaxRejects == 1

----------------------------------------------------------------------------
\* Characters

LowerChars == {"a","b","c","d","e","f","g","h","i","j","k","l","m",
               "n","o","p","q","r","s","t","u","v","w","x","y","z"}
UpperChars == {"A","B","C","D","E","F","G","H","I","J","K","L","M",
               "N","O","P","Q","R","S","T","U","V","W","X","Y","Z"}
DigitChars == {"0","1","2","3","4","5","6","7","8","9"}

\* \w of a JavaScript regular expression
WordChars == LowerChars \cup UpperChars \cup DigitChars \cup {"_"}

\* what String.prototype.trim removes
WhitespaceChars == {" ", "\t", "\n"}

\* the character class [a-z0-9-]
NameChars == LowerChars \cup DigitChars \cup {"-"}

lowerSeq == <<"a","b","c","d","e","f","g","h","i","j","k","l","m","n","o","p","q","r","s","t","u","v",
    "w","x","y","z">>
upperSeq == <<"A","B","C","D","E","F","G","H","I","J","K","L","M","N","O","P","Q","R","S","T","U","V",
    "W","X","Y","Z">>

\* String.prototype.toUpperCase on one character
ToUpperCase(c) ==
    IF c \in LowerChars
    THEN upperSeq[CHOOSE i \in 1..26 : lowerSeq[i] = c]
    ELSE c

\* !input.trim() : nothing is left after trimming
TrimIsEmpty(input) == \A i \in 1..Len(input) : input[i] \in WhitespaceChars

\* /^[a-z0-9-]+$/.test(input)
NameRegexTest(input) ==
    Len(input) >= 1 /\ \A i \in 1..Len(input) : input[i] \in NameChars

\* the validate callback of the name prompt: TRUE, or the message it returns
validate(input) ==
    IF TrimIsEmpty(input) THEN "Project name is required"
    ELSE IF ~NameRegexTest(input) THEN "Project name must be lowercase with hyphens only"
    ELSE "true"

\* the default of the name prompt, taken when the answer is empty
DefaultName == <<"m","y","-","e","l","e","c","t","r","o","n","-","a","p","p">>

----------------------------------------------------------------------------
\* Regular-expression replacement (replace-in-file with from/to arrays)

\* A pattern is a literal token, optionally between \b assertions and
\* optionally with a negative lookahead for a literal suffix.
Pattern(tok, wordBound, notFollowedBy) ==
    [tok |-> tok, wordBound |-> wordBound, notFollowedBy |-> notFollowedBy]

LiteralAt(s, i, lit) ==
    /\ i >= 1
    /\ i + Len(lit) - 1 <= Len(s)
    /\ \A k \in 1..Len(lit) : s[i + k - 1] = lit[k]

IsWordAt(s, i) == i >= 1 /\ i <= Len(s) /\ s[i] \in WordChars

\* \b between position i-1 and position i of s
BoundaryBefore(s, i) == IsWordAt(s, i - 1) # IsWordAt(s, i)

\* the pattern matches s starting at position i
MatchAt(s, i, pat) ==
    /\ LiteralAt(s, i, pat.tok)
    /\ pat.wordBound =>
          /\ BoundaryBefore(s, i)
          /\ BoundaryBefore(s, i + Len(pat.tok))
    /\ Len(pat.notFollowedBy) > 0 =>
          ~LiteralAt(s, i + Len(pat.tok), pat.notFollowedBy)

HasMatch(s, pat) == \E i \in 1..Len(s) : MatchAt(s, i, pat)

RECURSIVE ReplaceFrom(_, _, _, _)
\* s.replace(/pat/g, to), scanning from position start: every leftmost
\* non-overlapping match is replaced, the search resuming after each match
ReplaceFrom(s, start, pat, to) ==
    LET M == {i \in start..Len(s) : MatchAt(s, i, pat)}
    IN  IF M = {} THEN SubSeq(s, start, Len(s))
        ELSE LET i == CHOOSE m \in M : \A j \in M : m <= j
             IN  SubSeq(s, start, i - 1) \o to
                    \o ReplaceFrom(s, i + Len(pat.tok), pat, to)

ReplaceAll(s, pat, to) == ReplaceFrom(s, 1, pat, to)

\* the from array of src/src/index.ts
FromIndex ==
    << Pattern(<<"e","r","a">>, FALSE, <<>>),
       Pattern(<<"E","l","e","c","t","r","o","n","R","e","a","c","t","A","p","p">>, FALSE, <<>>),
       Pattern(<<"e","l","e","c","t","r","o","n","-","r","e","a","c","t","-","a","p","p">>, FALSE, <<>>) >>

\* the from array of the setup-template.sh generator
FromSetup ==
    << Pattern(<<"e","r","a">>, TRUE, <<".","s","v","g">>),
       Pattern(<<"E","l","e","c","t","r","o","n","R","e","a","c","t","A","p","p">>, TRUE, <<>>),
       Pattern(<<"e","l","e","c","t","r","o","n","-","r","e","a","c","t","-","a","p","p">>, TRUE, <<>>) >>

From(v) == IF v = "index" THEN FromIndex ELSE FromSetup

\* projectName.charAt(0).toUpperCase() + projectName.slice(1)
Capitalize(n) ==
    IF Len(n) = 0 THEN n ELSE <<ToUpperCase(n[1])>> \o SubSeq(n, 2, Len(n))

\* the to array
To(n) == << n, Capitalize(n), n >>

\* replace(options) on one file's contents: the from/to pairs are applied
\* one after the other, each to the result of the one before
ReplaceInFile(s, from, to) ==
    ReplaceAll(ReplaceAll(ReplaceAll(s, from[1], to[1]), from[2], to[2]),
               from[3], to[3])

----------------------------------------------------------------------------
\* The filesystem: the bundled template and the target directory

\* a path below the target directory: its directories, base name, extension
Path(dir, base, ext) == [dir |-> dir, base |-> base, ext |-> ext]

ReadmeMd    == Path(<<>>, "README", "md")
AppTsx      == Path(<<"app">>, "app", "tsx")
WelcomeFile == Path(<<"app", "components", "welcome">>, "WelcomeKit", "tsx")
DebugLog    == Path(<<>>, "debug", "log")
GitHead     == Path(<<".git">>, "HEAD", "")

\* package.json is kept apart, as the parsed object readJson/writeJson handle
PackageJson == Path(<<>>, "package", "json")

Files == {ReadmeMd, AppTsx, WelcomeFile, DebugLog, GitHead}

\* the content of a path that does not exist
Absent == <<"ENOENT">>

NoManifest == [name |-> Absent, description |-> Absent]

EmptyTree == [f \in Files |-> Absent]

\* path.join(projectPath, 'app', 'components', 'welcome')
welcomeKitPath == <<"app", "components", "welcome">>

IsPrefix(p, q) == Len(p) <= Len(q) /\ SubSeq(q, 1, Len(p)) = p

\* the directory exists in the tree: some file lives in it or below it
DirExists(t, dir) == \E f \in Files : t[f] # Absent /\ IsPrefix(dir, f.dir)

\* the texts the template's README.md is drawn from
TemplateTexts ==
    { <<"e","r","a"," ","E","l","e","c","t","r","o","n","R","e","a","c","t","A","p","p"," ","e",
    "l","e","c","t","r","o","n","-","r","e","a","c","t","-","a","p","p">>,
      <<"c","a","m","e","r","a"," ","i","c","o","n",":"," ","e","r","a",".","s","v","g"," ","h",
    "e","l","l","o">>,
      <<"e","r","a","-","r","e","a","c","t","-","a","p","p"," ","e","l","e","c","t","r","o","n",
    "-","r","e","a","c","t","-","a","p","p","-","r","e","a","c","t","-","a","p","p">> }

\* the template tree with README.md holding text
TemplateTree(text) ==
    [f \in Files |->
        IF f = ReadmeMd THEN text
        ELSE IF f = AppTsx THEN <<"i","m","p","o","r","t"," ","W","e","l","c","o","m","e","K","i","t"," ","f","r","o","m",
    " ","'",".","/","c","o","m","p","o","n","e","n","t","s","/","w","e","l","c","o","m","e",
    "/","W","e","l","c","o","m","e","K","i","t","'">>
        ELSE IF f = WelcomeFile THEN <<"e","x","p","o","r","t"," ","d","e","f","a","u","l","t"," ","f","u","n","c","t","i","o",
    "n"," ","W","e","l","c","o","m","e","K","i","t","(",")"," ","{","}"," ","/","/"," ","e",
    "r","a">>
        ELSE IF f = DebugLog THEN <<"e","r","a"," ","s","t","a","r","t","e","d">>
        ELSE Absent]

TemplateManifest == [name |-> <<"e","r","a">>, description |-> <<"E","l","e","c","t","r","o","n","R","e","a","c","t","A","p","p">>]

\* the literal newAppContent of removeWelcomeKit
newAppContent == 
    <<"i","m","p","o","r","t"," ","'",".","/","s","t","y","l","e","s","/","a","p","p",".","c",
    "s","s","'","\n","\n","e","x","p","o","r","t"," ","d","e","f","a","u","l","t"," ","f","u",
    "n","c","t","i","o","n"," ","A","p","p","(",")"," ","{","\n"," "," ","r","e","t","u","r",
    "n"," ","(","\n"," "," "," "," ","<","d","i","v"," ","c","l","a","s","s","N","a","m","e",
    "=","\"","f","l","e","x"," ","i","t","e","m","s","-","c","e","n","t","e","r"," ","j","u",
    "s","t","i","f","y","-","c","e","n","t","e","r"," ","m","i","n","-","h","-","s","c","r",
    "e","e","n"," ","b","g","-","b","a","c","k","g","r","o","u","n","d","\"",">","\n"," "," ",
    " "," "," "," ","<","d","i","v"," ","c","l","a","s","s","N","a","m","e","=","\"","t","e",
    "x","t","-","c","e","n","t","e","r","\"",">","\n"," "," "," "," "," "," "," "," ","<","h",
    "1"," ","c","l","a","s","s","N","a","m","e","=","\"","t","e","x","t","-","4","x","l"," ",
    "f","o","n","t","-","b","o","l","d"," ","t","e","x","t","-","f","o","r","e","g","r","o",
    "u","n","d"," ","m","b","-","4","\"",">","\n"," "," "," "," "," "," "," "," "," "," ","W",
    "e","l","c","o","m","e"," ","t","o"," ","y","o","u","r"," ","E","l","e","c","t","r","o",
    "n"," ","A","p","p","!","\n"," "," "," "," "," "," "," "," ","<","/","h","1",">","\n"," ",
    " "," "," "," "," "," "," ","<","p"," ","c","l","a","s","s","N","a","m","e","=","\"","t",
    "e","x","t","-","m","u","t","e","d","-","f","o","r","e","g","r","o","u","n","d","\"",">",
    "\n"," "," "," "," "," "," "," "," "," "," ","S","t","a","r","t"," ","b","u","i","l","d",
    "i","n","g"," ","y","o","u","r"," ","d","e","s","k","t","o","p"," ","a","p","p","l","i",
    "c","a","t","i","o","n",".","\n"," "," "," "," "," "," "," "," ","<","/","p",">","\n"," ",
    " "," "," "," "," ","<","/","d","i","v",">","\n"," "," "," "," ","<","/","d","i","v",">",
    "\n"," "," ",")","\n","}">>

\* the ignore option of glob('**/*'), over the paths of the model
Ignored(f, v) ==
    \/ Len(f.dir) >= 1 /\ f.dir[1] \in {"node_modules", "dist", "out", ".git"}
    \/ f.dir = <<>> /\ f.ext = "log"
    \/ v = "setup" /\ f = PackageJson

\* the files glob returns for the tree
GlobFiles(t, v) == {f \in Files : t[f] # Absent /\ ~Ignored(f, v)}

\* `A modern Electron application built with ${projectName}`
Description(n) == <<"A"," ","m","o","d","e","r","n"," ","E","l","e","c","t","r","o","n"," ","a","p","p","l",
    "i","c","a","t","i","o","n"," ","b","u","i","l","t"," ","w","i","t","h"," ">> \o n

----------------------------------------------------------------------------
\* Inputs

Undefined == <<>>

\* the positional argument [name]; Undefined when it is not given
ArgNames ==
    { Undefined,
      <<"m","y","-","a","p","p">>,
      <<"m","y","-","e","r","a">>,
      <<"e","l","e","c","t","r","o","n">>,
      <<"m","y","-","e","l","e","c","t","r","o","n","-","r","e","a","c","t","-","a","p","p">>,
      <<"M","y","A","p","p">> }

\* what the user may type at the name prompt
TypedNames ==
    { <<>>, <<" ">>, <<"M","y"," ","A","p","p">>, <<"m","y","-","e","r","a">> }

PackageManagers == {"npm", "yarn", "pnpm", "bun"}

Templates == {"default", "minimal"}

\* the options object commander builds: git and install are true unless
\* --no-git / --no-install is passed; template is "" when -t is not passed
OptionsSet(v) ==
    [yes : BOOLEAN, git : BOOLEAN, install : BOOLEAN,
     template : IF v = "index" THEN {"", "minimal"} ELSE {""}]

NoConfig ==
    [set |-> FALSE, template |-> "", git |-> FALSE, install |-> FALSE,
     packageManager |-> "", welcomeKit |-> FALSE]

----------------------------------------------------------------------------
\* The run

Init ==
    /\ variant \in {"index", "setup"}
    /\ argName \in ArgNames
    /\ options \in OptionsSet(variant)
    /\ preExists \in BOOLEAN
    /\ template \in {TemplateTree(text) : text \in TemplateTexts}
    /\ pc = "createApp"
    /\ projectName = Undefined
    /\ config = NoConfig
    /\ tree = EmptyTree
    /\ manifest = NoManifest
    /\ preRewrite = EmptyTree
    /\ fsOps = <<>>
    /\ namePrompts = 0
    /\ nameRejects = 0
    /\ optionPrompts = 0
    /\ gitResult = "none"
    /\ installResult = "none"
    /\ rewriteResult = "none"
    /\ kitResult = "none"
    /\ installCmd = "none"
    /\ spinner = "none"
    /\ successMsg = FALSE
    /\ installHint = "none"
    /\ exitCode = "running"

\* the variables of the environment and of the command line never change
Fixed == UNCHANGED <<variant, argName, options, preExists, template>>

\* an error reaches the catch of createApp: console.error, process.exit(1)
Exit1 == pc' = "exited" /\ exitCode' = "1"

\* createApp, up to the name: const projectName = name || getProjectName()
CreateApp ==
    /\ pc = "createApp"
    /\ IF argName # Undefined
       THEN /\ projectName' = argName
            /\ pc' = "checkDir"
            /\ UNCHANGED namePrompts
       ELSE /\ pc' = "getProjectName"
            /\ namePrompts' = namePrompts + 1
            /\ UNCHANGED projectName
    /\ Fixed
    /\ UNCHANGED <<config, tree, manifest, preRewrite, fsOps, nameRejects,
                   optionPrompts, gitResult, installResult, rewriteResult,
                   kitResult, installCmd, spinner, successMsg,
                   installHint, exitCode>>

\* getProjectName: the input prompt; an empty answer takes the default, an
\* answer validate rejects is asked again
GetProjectName ==
    /\ pc = "getProjectName"
    /\ \E typed \in TypedNames :
         LET input == IF typed = <<>> THEN DefaultName ELSE typed
         IN  IF validate(input) = "true"
             THEN /\ projectName' = input
                  /\ pc' = "checkDir"
                  /\ UNCHANGED nameRejects
             ELSE /\ nameRejects < MaxRejects
                  /\ nameRejects' = nameRejects + 1
                  /\ UNCHANGED <<projectName, pc>>
    /\ Fixed
    /\ UNCHANGED <<config, tree, manifest, preRewrite, fsOps, namePrompts,
                   optionPrompts, gitResult, installResult, rewriteResult,
                   kitResult, installCmd, spinner, successMsg,
                   installHint, exitCode>>

\* CheckDir without the exit: the run goes on over the existing directory
CheckDirNoExit ==
    /\ pc = "checkDir"
    /\ pc' = "getConfig"
    /\ Fixed
    /\ UNCHANGED <<projectName, config, tree, manifest, preRewrite, fsOps,
                   namePrompts, nameRejects, optionPrompts, gitResult,
                   installResult, rewriteResult, kitResult, installCmd,
                   spinner, successMsg,
                   installHint, exitCode>>

\* createApp: if (await fs.pathExists(projectPath)) process.exit(1)
CheckDir ==
    /\ pc = "checkDir"
    /\ IF preExists
       THEN Exit1
       ELSE pc' = "getConfig" /\ UNCHANGED exitCode
    /\ Fixed
    /\ UNCHANGED <<projectName, config, tree, manifest, preRewrite, fsOps,
                   namePrompts, nameRejects, optionPrompts, gitResult,
                   installResult, rewriteResult, kitResult, installCmd,
                   spinner, successMsg,
                   installHint>>

\* YesConfig with another package manager as the default
YesConfigYarn(v, opts) ==
    [set |-> TRUE,
     template |-> IF v = "index" /\ opts.template # "" THEN opts.template
                  ELSE "default",
     git |-> opts.git # FALSE,
     install |-> opts.install # FALSE,
     packageManager |-> "yarn",
     welcomeKit |-> TRUE]

\* getConfig with options.yes: no question is asked.  index.ts has no
\* welcomeKit field (the kit always stays) and the setup-template.sh
\* generator no template field (always the default template).
YesConfig(v, opts) ==
    [set |-> TRUE,
     template |-> IF v = "index" /\ opts.template # "" THEN opts.template
                  ELSE "default",
     git |-> opts.git # FALSE,
     install |-> opts.install # FALSE,
     packageManager |-> "npm",
     welcomeKit |-> TRUE]

\* getConfig without options.yes: the answers of inquirer.prompt; the
\* packageManager question is asked only when (answers) => answers.install
PromptConfig(v, t, g, i, p, w) ==
    [set |-> TRUE,
     template |-> IF v = "index" THEN t ELSE "default",
     git |-> g,
     install |-> i,
     packageManager |-> IF i THEN p ELSE "undefined",
     welcomeKit |-> IF v = "setup" THEN w ELSE TRUE]

\* the questions getConfig asks: three, and packageManager when install
QuestionsAsked(i) == IF i THEN 4 ELSE 3

GetConfig ==
    /\ pc = "getConfig"
    /\ IF options.yes
       THEN /\ config' = YesConfig(variant, options)
            /\ UNCHANGED optionPrompts
       ELSE \E t \in Templates, g \in BOOLEAN, i \in BOOLEAN,
               p \in PackageManagers, w \in BOOLEAN :
              /\ config' = PromptConfig(variant, t, g, i, p, w)
              /\ optionPrompts' = optionPrompts + QuestionsAsked(i)
    /\ pc' = "copy"
    /\ Fixed
    /\ UNCHANGED <<projectName, tree, manifest, preRewrite, fsOps,
                   namePrompts, nameRejects, gitResult, installResult,
                   rewriteResult, kitResult, installCmd, spinner,
                   successMsg,
                   installHint, exitCode>>

\* generateProject: await fs.copy(templatePath, projectPath)
Copy ==
    /\ pc = "copy"
    /\ fsOps' = Append(fsOps, "copy")
    /\ \E ok \in BOOLEAN :
         IF ok
         THEN /\ tree' = template
              /\ manifest' = TemplateManifest
              /\ pc' = IF variant = "setup" /\ ~config.welcomeKit
                       THEN "removeWelcomeKit" ELSE "updatePackageJson"
              /\ UNCHANGED <<spinner, exitCode>>
         ELSE /\ spinner' = "fail"
              /\ Exit1
              /\ UNCHANGED <<tree, manifest>>
    /\ Fixed
    /\ UNCHANGED <<projectName, config, preRewrite, namePrompts, nameRejects,
                   optionPrompts, gitResult, installResult, rewriteResult,
                   kitResult, installCmd, successMsg,
                   installHint>>

\* fs.remove(welcomeKitPath)
Remove(t, dir) == [f \in Files |-> IF IsPrefix(dir, f.dir) THEN Absent ELSE t[f]]

\* removeWelcomeKit: remove the directory, read app.tsx, write the fallback;
\* whichever call throws, the catch only warns
RemoveWelcomeKit ==
    /\ pc = "removeWelcomeKit"
    /\ \E r \in {"ok", "remove failed", "readFile failed", "writeFile failed"} :
         /\ kitResult' = r
         /\ IF r = "remove failed"
            THEN /\ tree' = tree
                 /\ fsOps' = Append(fsOps, "remove")
            ELSE IF r = "readFile failed"
            THEN /\ tree' = Remove(tree, welcomeKitPath)
                 /\ fsOps' = Append(fsOps, "remove")
            ELSE IF r = "writeFile failed"
            THEN /\ tree' = Remove(tree, welcomeKitPath)
                 /\ fsOps' = fsOps \o <<"remove", "writeFile">>
            ELSE /\ tree' = [Remove(tree, welcomeKitPath) EXCEPT ![AppTsx] = newAppContent]
                 /\ fsOps' = fsOps \o <<"remove", "writeFile">>
    /\ pc' = "updatePackageJson"
    /\ Fixed
    /\ UNCHANGED <<projectName, config, manifest, preRewrite, namePrompts,
                   nameRejects, optionPrompts, gitResult, installResult,
                   rewriteResult, installCmd, spinner, successMsg,
                   installHint, exitCode>>

\* updatePackageJson: readJson, set name and description, writeJson
UpdatePackageJson ==
    /\ pc = "updatePackageJson"
    /\ \E ok \in BOOLEAN :
         IF ok
         THEN /\ manifest' = [manifest EXCEPT !.name = projectName,
                                              !.description = Description(projectName)]
              /\ fsOps' = Append(fsOps, "writeJson")
              /\ pc' = "replaceProjectName"
              /\ UNCHANGED <<spinner, exitCode>>
         ELSE /\ spinner' = "fail"
              /\ Exit1
              /\ UNCHANGED <<manifest, fsOps>>
    /\ Fixed
    /\ UNCHANGED <<projectName, config, tree, preRewrite, namePrompts,
                   nameRejects, optionPrompts, gitResult, installResult,
                   rewriteResult, kitResult, installCmd, successMsg,
                   installHint>>

\* the tree after replace(options) over the files glob returned
Rewritten(t, v, n) ==
    [f \in Files |->
        IF f \in GlobFiles(t, v) THEN ReplaceInFile(t[f], From(v), To(n))
        ELSE t[f]]

\* package.json after replace(options): glob returns it unless it is ignored;
\* the text is the serialised object, whose values are rewritten in place
RewrittenManifest(m, v, n) ==
    IF Ignored(PackageJson, v) THEN m
    ELSE [name |-> ReplaceInFile(m.name, From(v), To(n)),
          description |-> ReplaceInFile(m.description, From(v), To(n))]

\* what replaceProjectName does when glob or replace throws: the
\* setup-template.sh generator catches and warns, index.ts lets it escape
\* to generateProject's catch (spinner.fail, throw) and createApp's catch
RewriteErrorIsCaught(v) == v = "setup"

\* replaceProjectName, and the end of generateProject's try block
ReplaceProjectName ==
    /\ pc = "replaceProjectName"
    /\ \E ok \in BOOLEAN :
         IF ok
         THEN /\ preRewrite' = tree
              /\ IF variant = "setup" /\ GlobFiles(tree, variant) = {}
                 THEN UNCHANGED <<tree, manifest, fsOps>>
                 ELSE /\ tree' = Rewritten(tree, variant, projectName)
                      /\ manifest' = RewrittenManifest(manifest, variant, projectName)
                      /\ fsOps' = Append(fsOps, "replace")
              /\ rewriteResult' = "ok"
              /\ spinner' = "succeed"
              /\ pc' = "postCreateGit"
              /\ UNCHANGED exitCode
         ELSE /\ rewriteResult' = "failed"
              /\ UNCHANGED <<tree, manifest, fsOps, preRewrite>>
              /\ IF RewriteErrorIsCaught(variant)
                 THEN /\ spinner' = "succeed"
                      /\ pc' = "postCreateGit"
                      /\ UNCHANGED exitCode
                 ELSE /\ spinner' = "fail"
                      /\ Exit1
    /\ Fixed
    /\ UNCHANGED <<projectName, config, namePrompts, nameRejects,
                   optionPrompts, gitResult, installResult, kitResult,
                   installCmd, successMsg,
                   installHint>>

\* AfterGit with both steps in one try block: a failed git init skips the install
AfterGitOneTry(ok) == IF ok THEN "postCreateInstall" ELSE "showSuccessMessage"

\* where postCreate goes after the git step, whatever its outcome
AfterGit(ok) == "postCreateInstall"

\* postCreate, first half: if (config.git) try { git init } catch { fail }
PostCreateGit ==
    /\ pc = "postCreateGit"
    /\ IF config.git
       THEN \E ok \in BOOLEAN :
              /\ gitResult' = IF ok THEN "ok" ELSE "failed"
              /\ fsOps' = Append(fsOps, "git init")
              /\ tree' = IF ok THEN [tree EXCEPT ![GitHead] = <<"r","e","f",":"," ","r","e","f","s","/","h","e","a","d","s","/","m","a","i","n">>]
                         ELSE tree
              /\ pc' = AfterGit(ok)
       ELSE /\ pc' = "postCreateInstall"
            /\ UNCHANGED <<gitResult, fsOps, tree>>
    /\ Fixed
    /\ UNCHANGED <<projectName, config, manifest, preRewrite, namePrompts,
                   nameRejects, optionPrompts, installResult, rewriteResult,
                   kitResult, installCmd, spinner, successMsg,
                   installHint, exitCode>>

getInstallCommand(packageManager) ==
    IF packageManager = "yarn" THEN "yarn install"
    ELSE IF packageManager = "pnpm" THEN "pnpm install"
    ELSE IF packageManager = "bun" THEN "bun install"
    ELSE "npm install"

\* postCreate, second half: if (config.install) try { install } catch { fail }
PostCreateInstall ==
    /\ pc = "postCreateInstall"
    /\ IF config.install
       THEN \E ok \in BOOLEAN :
              /\ installCmd' = getInstallCommand(config.packageManager)
              /\ installResult' = IF ok THEN "ok" ELSE "failed"
              /\ fsOps' = Append(fsOps, "install")
       ELSE UNCHANGED <<installCmd, installResult, fsOps>>
    /\ pc' = "showSuccessMessage"
    /\ Fixed
    /\ UNCHANGED <<projectName, config, tree, manifest, preRewrite,
                   namePrompts, nameRejects, optionPrompts, gitResult,
                   rewriteResult, kitResult, spinner, successMsg,
                   installHint, exitCode>>

\* the line `  ${config.packageManager} install` of showSuccessMessage,
\* printed only if (!config.install): the text in front of " install", an
\* undefined packageManager being interpolated as the text undefined
InstallHint(c) == IF ~c.install THEN c.packageManager ELSE "none"

\* showSuccessMessage, after which createApp returns and node exits with 0
ShowSuccessMessage ==
    /\ pc = "showSuccessMessage"
    /\ successMsg' = TRUE
    /\ installHint' = InstallHint(config)
    /\ pc' = "done"
    /\ exitCode' = "0"
    /\ Fixed
    /\ UNCHANGED <<projectName, config, tree, manifest, preRewrite, fsOps,
                   namePrompts, nameRejects, optionPrompts, gitResult,
                   installResult, rewriteResult, kitResult, installCmd,
                   spinner>>

Next ==
    \/ CreateApp
    \/ GetProjectName
    \/ CheckDir
    \/ GetConfig
    \/ Copy
    \/ RemoveWelcomeKit
    \/ UpdatePackageJson
    \/ ReplaceProjectName
    \/ PostCreateGit
    \/ PostCreateInstall
    \/ ShowSuccessMessage

Spec == Init /\ [][Next]_vars

\* The program is one sequential async function: every step whose turn has
\* come is taken, and the filesystem calls and child processes return.  Only
\* the prompts wait for the user: GetProjectName, and GetConfig without
\* --yes, are under no fairness condition.
FairSpec ==
    /\ Spec
    /\ WF_vars(CreateApp)
    /\ WF_vars(CheckDir)
    /\ WF_vars(GetConfig /\ options.yes)
    /\ WF_vars(Copy)
    /\ WF_vars(RemoveWelcomeKit)
    /\ WF_vars(UpdatePackageJson)
    /\ WF_vars(ReplaceProjectName)
    /\ WF_vars(PostCreateGit)
    /\ WF_vars(PostCreateInstall)
    /\ WF_vars(ShowSuccessMessage)

----------------------------------------------------------------------------
\* Properties

Range(s) == {s[i] : i \in 1..Len(s)}

\* the run is past the directory check
PastCheckDir == pc \notin {"createApp", "getProjectName", "checkDir"}

\* C1: if <cwd>/<project-name> exists when createApp checks it, the run
\* mutates nothing in the filesystem, asks no option prompt, prints no
\* success message and exits with status 1.
C1_ExistingTargetUntouched ==
    preExists =>
        /\ fsOps = <<>>
        /\ tree = EmptyTree
        /\ manifest = NoManifest
        /\ optionPrompts = 0
        /\ config = NoConfig
        /\ ~successMsg
        /\ exitCode # "0"
        /\ PastCheckDir => pc = "exited" /\ exitCode = "1"

C1_Witness ==
    /\ preExists
    /\ projectName # Undefined
    /\ pc = "exited"
    /\ exitCode = "1"

\* C2: for every project name n matching ^[a-z0-9-]+$, after a run that
\* ends with the success message the name field of package.json equals n,
\* in both generator variants.
C2_ManifestNameIsProjectName ==
    (pc = "done" /\ successMsg /\ NameRegexTest(projectName))
        => manifest.name = projectName

\* C3: for every valid project name and every file glob handed to the
\* rewriter, once replaceProjectName has completed without error the file
\* holds no match of any of the rewriter's three patterns.
C3_NoPlaceholderRemains ==
    (rewriteResult = "ok" /\ NameRegexTest(projectName)) =>
        \A f \in GlobFiles(preRewrite, variant) :
            \A k \in 1..3 : ~HasMatch(tree[f], From(variant)[k])

RECURSIVE ReplaceOnceFrom(_, _, _, _)
\* every placeholder occurrence of the original text replaced exactly once:
\* one scan over the original, the replacement text never scanned again
ReplaceOnceFrom(s, start, from, to) ==
    LET M == {i \in start..Len(s) : \E k \in 1..3 : MatchAt(s, i, from[k])}
    IN  IF M = {} THEN SubSeq(s, start, Len(s))
        ELSE LET i == CHOOSE m \in M : \A j \in M : m <= j
                 k == CHOOSE r \in 1..3 : MatchAt(s, i, from[r])
             IN  SubSeq(s, start, i - 1) \o to[k]
                    \o ReplaceOnceFrom(s, i + Len(from[k].tok), from, to)

\* C4: the ordered rule set never substitutes twice: for every valid name
\* and every rewritten file, applying rule 1, then 2, then 3 gives what
\* replacing each placeholder of the original content exactly once gives.
C4_NoDoubleSubstitution ==
    (rewriteResult = "ok" /\ NameRegexTest(projectName)) =>
        \A f \in GlobFiles(preRewrite, variant) :
            tree[f] = ReplaceOnceFrom(preRewrite[f], 1, From(variant), To(projectName))

\* C5: in the variant with the welcome-kit toggle, every run with
\* welcomeKit = false that ends with the success message leaves no
\* app/components/welcome directory and an app/app.tsx equal to the
\* embedded fallback content.
C5_WelcomeKitRemoved ==
    (variant = "setup" /\ config.set /\ ~config.welcomeKit /\ pc = "done" /\ successMsg)
        => /\ ~DirExists(tree, welcomeKitPath)
           /\ tree[AppTsx] = newAppContent

\* -y/--yes and no other option flag
YesOnly == options.yes /\ options.git /\ options.install /\ options.template = ""

\* the documented defaults
IsDefaultConfig(c) ==
    /\ c.git
    /\ c.install
    /\ c.packageManager = "npm"
    /\ c.template = "default"
    /\ c.welcomeKit

Ended == pc \in {"done", "exited"}

C6_DefaultsAndNamePromptOnly ==
    YesOnly =>
        /\ optionPrompts = 0
        /\ config.set => IsDefaultConfig(config)
        /\ argName # Undefined => namePrompts = 0
        /\ argName = Undefined => namePrompts = (IF pc = "createApp" THEN 0 ELSE 1)

C7_NoGitNoInstallHonoured ==
    (~options.git /\ ~options.install) =>
        /\ gitResult = "none"
        /\ installResult = "none"
        /\ tree[GitHead] = Absent
        /\ Range(fsOps) \cap {"git init", "install"} = {}
        /\ pc = "done" => successMsg /\ exitCode = "0"

\* generateProject has returned: spinner.succeed was its last statement
GenerationSucceeded == spinner = "succeed"

C8_NeverFatalAndIndependent ==
    GenerationSucceeded =>
        /\ pc \in {"postCreateGit", "postCreateInstall", "showSuccessMessage", "done"}
        /\ exitCode # "1"
        /\ (pc \in {"showSuccessMessage", "done"} /\ config.install)
              => installResult \in {"ok", "failed"}
        /\ (pc \in {"postCreateInstall", "showSuccessMessage", "done"} /\ config.git)
              => gitResult \in {"ok", "failed"}
        /\ pc = "done" => successMsg /\ exitCode = "0"

\* C8: once generation has succeeded, whether git init and the install
\* command fail or succeed, the install is attempted whenever install is
\* enabled (also after a failed git init), the run never exits with 1, and
\* it ends with the success message and exit status 0.
C8_PostCreateFailuresNonFatal ==
    /\ []C8_NeverFatalAndIndependent
    /\ (GenerationSucceeded ~> (pc = "done" /\ successMsg /\ exitCode = "0"))

C8_Witness ==
    /\ pc = "done"
    /\ config.git
    /\ config.install
    /\ gitResult = "failed"
    /\ installResult = "failed"
    /\ successMsg
    /\ exitCode = "0"

\* C9: a failure of the name-rewrite step is never fatal, in both
\* variants: the run does not exit with status 1 because of it.
C9_RewriteFailureNonFatal ==
    rewriteResult = "failed" => pc # "exited" /\ exitCode # "1"

\* C10: every project name that reaches the template copy matches
\* ^[a-z0-9-]+$; an invalid name never causes a filesystem write.
C10_OnlyValidNamesReachCopy ==
    fsOps # <<>> => NameRegexTest(projectName)

\* C11: every ProjectConfig getConfig returns has a packageManager among
\* npm, yarn, pnpm and bun, on every path, so the install hint that
\* showSuccessMessage prints when install is disabled names one of the four.
C11_ConfigIsComplete ==
    /\ config.set => config.packageManager \in PackageManagers
    /\ installHint # "none" => installHint \in PackageManagers

====
